---------------------------- MODULE Spec2Model ----------------------------
(***************************************************************************)
(* ColdMailer: the prospect list of the two single-page applications.      *)
(*                                                                         *)
(*   status variant     src/cold-mailer/src/App.jsx  (key 'prospects')     *)
(*   dateAdded variant  src/unnamed/part_000  (key 'workflowProspects')    *)
(*                                                                         *)
(* A text value (a form field, a record field) is a sequence of            *)
(* one-character strings, so that escaping, lower-casing and quoting act   *)
(* on characters.  The content of localStorage is a JSON text, held as the *)
(* sequence of its lexemes, each lexeme being the exact characters         *)
(* JSON.stringify writes for it: "[", "{", ":", ",", a number's digits, or *)
(* a string literal with its quotes and escapes.                           *)
(***************************************************************************)
EXTENDS Integers, Sequences, FiniteSets, TLC

(***************************************************************************)
(* Bounds of the model.                                                    *)
(***************************************************************************)
\* The log action is not offered once a list holds MaxList records.
MaxList == 2
\* The wall clock, in milliseconds, runs from 1 to MaxTime.
MaxTime == 2
\* Where the history of logged records is kept, the log action is not offered
\* once it holds MaxLogs records.
MaxLogs == 3

(***************************************************************************)
(* Sequences.                                                              *)
(***************************************************************************)
\* Array.prototype.join on rows that are sequences: sep between the rows.
RECURSIVE JoinFrom(_, _, _)
JoinFrom(rows, sep, i) ==
    IF i > Len(rows) THEN <<>>
    ELSE IF i = Len(rows) THEN rows[i]
    ELSE rows[i] \o sep \o JoinFrom(rows, sep, i + 1)

Join(rows, sep) == JoinFrom(rows, sep, 1)

Range(f) == {f[i] : i \in DOMAIN f}

(***************************************************************************)
(* JSON.stringify and JSON.parse on lists of flat records.                 *)
(***************************************************************************)
Quote == "\""
Backslash == "\\"
DigitChars == <<"0", "1", "2", "3", "4", "5", "6", "7", "8", "9">>

\* Number.prototype.toString / the digits JSON.stringify writes for n >= 0.
RECURSIVE Digits(_)
Digits(n) ==
    IF n < 10 THEN <<DigitChars[n + 1]>>
    ELSE Digits(n \div 10) \o <<DigitChars[(n % 10) + 1]>>

DigitValue(c) == CHOOSE d \in 0..9 : DigitChars[d + 1] = c

IsDigit(c) == c \in Range(DigitChars)

\* The number a digit lexeme denotes.
RECURSIVE NumberOf(_)
NumberOf(cs) ==
    IF Len(cs) = 1 THEN DigitValue(cs[1])
    ELSE 10 * NumberOf(SubSeq(cs, 1, Len(cs) - 1)) + DigitValue(cs[Len(cs)])

\* EscapeChar as writing every character as it is would have it.
EscapeChar_Raw(c) == <<c>>

\* JSON.stringify's escaping of one character of a string.
EscapeChar(c) ==
    IF c = Quote THEN <<Backslash, Quote>>
    ELSE IF c = Backslash THEN <<Backslash, Backslash>>
    ELSE IF c = "\n" THEN <<Backslash, "n">>
    ELSE <<c>>

\* JSON.stringify's escaping of a string's characters.
EscapeChars(cs) ==
    IF \A i \in 1..Len(cs) : EscapeChar(cs[i]) = <<cs[i]>>
    THEN cs
    ELSE Join([i \in 1..Len(cs) |-> EscapeChar(cs[i])], <<>>)

\* The string literal JSON.stringify writes for a text value.
StringLexeme(cs) == <<Quote>> \o EscapeChars(cs) \o <<Quote>>

\* JSON.parse on the inside of a string literal: [ok, chars].  Characters
\* other than quote, backslash and line feed stand for themselves.
RECURSIVE UnescapeChars(_)
UnescapeChars(cs) ==
    IF \A i \in 1..Len(cs) : cs[i] \notin {Quote, Backslash, "\n"}
    THEN [ok |-> TRUE, chars |-> cs]
    ELSE IF Head(cs) = Quote THEN [ok |-> FALSE, chars |-> <<>>]
    ELSE IF Head(cs) = "\n" THEN [ok |-> FALSE, chars |-> <<>>]
    ELSE IF Head(cs) = Backslash
         THEN IF Len(cs) < 2 \/ cs[2] \notin {Quote, Backslash, "n"}
              THEN [ok |-> FALSE, chars |-> <<>>]
              ELSE LET rest == UnescapeChars(SubSeq(cs, 3, Len(cs)))
                       c == IF cs[2] = "n" THEN "\n" ELSE cs[2]
                   IN [ok |-> rest.ok, chars |-> <<c>> \o rest.chars]
    ELSE LET rest == UnescapeChars(Tail(cs))
         IN [ok |-> rest.ok, chars |-> <<Head(cs)>> \o rest.chars]

IsStringLexeme(lx) ==
    /\ Len(lx) >= 2
    /\ lx[1] = Quote
    /\ lx[Len(lx)] = Quote
    /\ UnescapeChars(SubSeq(lx, 2, Len(lx) - 1)).ok

IsNumberLexeme(lx) ==
    /\ Len(lx) >= 1
    /\ \A i \in 1..Len(lx) : IsDigit(lx[i])
    /\ (Len(lx) > 1 => lx[1] # "0")

StringOf(lx) == UnescapeChars(SubSeq(lx, 2, Len(lx) - 1)).chars

Punct(c) == <<c>>

\* The property names the two record shapes use, as characters.
KeyChars ==
    [ id            |-> <<"i", "d">>,
      firstName     |-> <<"f", "i", "r", "s", "t", "N", "a", "m", "e">>,
      lastName      |-> <<"l", "a", "s", "t", "N", "a", "m", "e">>,
      company       |-> <<"c", "o", "m", "p", "a", "n", "y">>,
      domain        |-> <<"d", "o", "m", "a", "i", "n">>,
      companyDomain |-> <<"c", "o", "m", "p", "a", "n", "y",
                          "D", "o", "m", "a", "i", "n">>,
      email         |-> <<"e", "m", "a", "i", "l">>,
      title         |-> <<"t", "i", "t", "l", "e">>,
      status        |-> <<"s", "t", "a", "t", "u", "s">>,
      dateAdded     |-> <<"d", "a", "t", "e", "A", "d", "d", "e", "d">> ]

\* The string literals JSON.stringify writes for the property names.
KeyLexemes == [k \in DOMAIN KeyChars |-> StringLexeme(KeyChars[k])]

\* Property order of the object literal handleLogProspect builds (status variant).
StatusKeys ==
    <<"id", "firstName", "lastName", "company", "domain", "email", "title", "status">>

\* Property order of the object literal handleLogProspect builds (dateAdded variant).
DateKeys ==
    <<"id", "firstName", "lastName", "company", "companyDomain", "email", "dateAdded">>

\* JSON.stringify of one record: keys in property order; the keys in numeric
\* hold numbers, the others strings.
StringifyRecord(p, keys, numeric) ==
    <<Punct("{")>>
    \o Join([i \in 1..Len(keys) |->
                <<KeyLexemes[keys[i]], Punct(":"),
                  IF keys[i] \in numeric THEN Digits(p[keys[i]])
                  ELSE StringLexeme(p[keys[i]])>>],
            <<Punct(",")>>)
    \o <<Punct("}")>>

\* JSON.stringify of the prospect list.
Stringify(list, keys, numeric) ==
    <<Punct("[")>>
    \o Join([i \in 1..Len(list) |-> StringifyRecord(list[i], keys, numeric)],
            <<Punct(",")>>)
    \o <<Punct("]")>>

\* The lexeme at position i of a text; the empty lexeme past its end.
At(tx, i) == IF i \in 1..Len(tx) THEN tx[i] ELSE <<>>

ParseFail == [ok |-> FALSE, pos |-> 0, value |-> <<>>]

\* One "key": value member at position i.  The model's store holds only the
\* property names of KeyChars; a member with another name is not represented.
ParseMember(tx, i) ==
    LET k == At(tx, i)
        v == At(tx, i + 2)
        named == IF IsStringLexeme(k)
                 THEN LET name == StringOf(k)
                      IN  {f \in DOMAIN KeyChars : KeyChars[f] = name}
                 ELSE {}
    IN  IF /\ named # {}
           /\ At(tx, i + 1) = Punct(":")
           /\ (IsStringLexeme(v) \/ IsNumberLexeme(v))
        THEN [ok |-> TRUE, pos |-> i + 3,
              value |-> (CHOOSE f \in named : TRUE)
                        :> (IF IsNumberLexeme(v) THEN NumberOf(v) ELSE StringOf(v))]
        ELSE ParseFail

\* The members of an object from position i, up to and including its "}".
RECURSIVE ParseMembers(_, _, _)
ParseMembers(tx, i, acc) ==
    LET m == ParseMember(tx, i)
    IN  IF ~m.ok THEN ParseFail
        ELSE IF At(tx, m.pos) = Punct("}")
             THEN [ok |-> TRUE, pos |-> m.pos + 1, value |-> m.value @@ acc]
        ELSE IF At(tx, m.pos) = Punct(",")
             THEN ParseMembers(tx, m.pos + 1, m.value @@ acc)
        ELSE ParseFail

\* An object at position i.
ParseObject(tx, i) ==
    IF At(tx, i) # Punct("{") THEN ParseFail
    ELSE IF At(tx, i + 1) = Punct("}")
         THEN [ok |-> TRUE, pos |-> i + 2, value |-> <<>>]
    ELSE ParseMembers(tx, i + 1, <<>>)

\* The elements of an array from position i, up to and including its "]".
RECURSIVE ParseElements(_, _, _)
ParseElements(tx, i, acc) ==
    LET o == ParseObject(tx, i)
    IN  IF ~o.ok THEN ParseFail
        ELSE IF At(tx, o.pos) = Punct("]")
             THEN [ok |-> TRUE, pos |-> o.pos + 1, value |-> Append(acc, o.value)]
        ELSE IF At(tx, o.pos) = Punct(",")
             THEN ParseElements(tx, o.pos + 1, Append(acc, o.value))
        ELSE ParseFail

\* JSON.parse of a text that is an array of flat objects: [ok, value];
\* ok = FALSE is the SyntaxError JSON.parse throws.
Parse(tx) ==
    LET r == IF At(tx, 1) # Punct("[") THEN ParseFail
             ELSE IF At(tx, 2) = Punct("]")
                  THEN [ok |-> TRUE, pos |-> 3, value |-> <<>>]
             ELSE ParseElements(tx, 2, <<>>)
    IN  IF r.ok /\ r.pos = Len(tx) + 1
        THEN [ok |-> TRUE, value |-> r.value]
        ELSE [ok |-> FALSE, value |-> <<>>]

(***************************************************************************)
(* Values.                                                                 *)
(***************************************************************************)
\* The two applications.
Variants == {"status", "dateAdded"}

\* Browser tabs that can hold a session of the application.
Tabs == {"t1", "t2"}

\* The options of the status <select>, the first being the status of a new record.
NotContacted == <<"N", "o", "t", " ", "C", "o", "n", "t", "a", "c", "t", "e", "d">>
Contacted == <<"C", "o", "n", "t", "a", "c", "t", "e", "d">>
Replied == <<"R", "e", "p", "l", "i", "e", "d">>
MeetingSet == <<"M", "e", "e", "t", "i", "n", "g", " ", "S", "e", "t">>
Closed == <<"C", "l", "o", "s", "e", "d">>
Statuses == {NotContacted, Contacted, Replied, MeetingSet, Closed}

\* The options the model's user picks in the status <select>.
StatusInputs == {NotContacted, Contacted}

\* The fields of the form.  In the dateAdded variant the form has no title,
\* domain is its companyDomain and email its verifiedEmail.
FormFields == {"firstName", "lastName", "company", "domain", "email", "title"}

\* The form as useState('') initializes it and handleLogProspect clears it.
EmptyForm == [f \in FormFields |-> <<>>]

\* A form the user has filled in, but for the optional title; the company has
\* a quote and a backslash in it.
TypedForm ==
    [ firstName |-> <<"J", "o">>,
      lastName  |-> <<"D", "e">>,
      company   |-> <<"A", "\"", "\\">>,
      domain    |-> <<"a", ".", "c">>,
      email     |-> <<"j", "@", "a">>,
      title     |-> <<>> ]

\* The fields handleLogProspect requires.
RequiredFields == {"firstName", "company", "email"}

\* What the user can have typed into the form: nothing, TypedForm, and
\* TypedForm less one required field.
Forms ==
    {EmptyForm, TypedForm} \cup {[TypedForm EXCEPT ![fld] = <<>>] : fld \in RequiredFields}

\* A second form, with capitals in the names and a "#" in the company.
JaneForm ==
    [ firstName |-> <<"J", "a", "n", "e">>,
      lastName  |-> <<"D", "o", "e">>,
      company   |-> <<"C", "#">>,
      domain    |-> <<"a", "c", "m", "e", ".", "c", "o", "m">>,
      email     |-> <<"j", "d", "@", "a", "c", "m", "e", ".", "c", "o", "m">>,
      title     |-> <<>> ]

\* What the user can have typed into the form when using the tools: nothing,
\* TypedForm, JaneForm, and JaneForm less a name or the domain.
ToolForms ==
    {EmptyForm, TypedForm, JaneForm}
        \cup {[JaneForm EXCEPT ![fld] = <<>>] : fld \in {"firstName", "lastName", "domain"}}

\* The identifiers a delete or a status update is called with: those of the
\* rows the list shows, and one that no record carries.
IdsFor(list) == {0} \cup {list[i].id : i \in DOMAIN list}

\* The argument of alert() in handleLogProspect (status variant).
LogAlert == "Please fill in at least First Name, Company, and Email to log a prospect."
\* The argument of setError() in handleLogProspect (dateAdded variant).
LogError == "First Name, Company, and Verified Email are required to log a prospect."
NoMessage == "null"

\* localStorage under the variant's key: no item, or an item's text.
NoItem == [present |-> FALSE, text |-> <<>>]
Item(tx) == [present |-> TRUE, text |-> tx]

\* Store contents no session of the application wrote: no item, the empty
\* string, and two texts JSON.parse rejects.
InitStores ==
    { NoItem,
      Item(<<>>),
      Item(<<Punct("{")>>),
      Item(<<Punct("["), Punct("{"), StringLexeme(KeyChars["id"])>>) }

(***************************************************************************)
(* Date.                                                                   *)
(***************************************************************************)
\* n in decimal, left-padded with zeros to w characters.
Pad(n, w) ==
    LET ds == Digits(n)
    IN  [i \in 1..(w - Len(ds)) |-> "0"] \o ds

\* new Date(t).toISOString().split('T')[0]: the UTC calendar date YYYY-MM-DD
\* of t milliseconds after the epoch, for t >= 0.
IsoDate(t) ==
    LET z == (t \div 86400000) + 719468
        era == z \div 146097
        doe == z - era * 146097
        yoe == (doe - doe \div 1460 + doe \div 36524 - doe \div 146096) \div 365
        doy == doe - (365 * yoe + yoe \div 4 - yoe \div 100)
        mp == (5 * doy + 2) \div 153
        d == doy - (153 * mp + 2) \div 5 + 1
        m == IF mp < 10 THEN mp + 3 ELSE mp - 9
        y == yoe + era * 400 + (IF m <= 2 THEN 1 ELSE 0)
    IN  Pad(y, 4) \o <<"-">> \o Pad(m, 2) \o <<"-">> \o Pad(d, 2)

(***************************************************************************)
(* State.                                                                  *)
(***************************************************************************)
VARIABLES
    variant,    \* which of the two applications runs
    now,        \* what Date.now() returns, in milliseconds
    store,      \* localStorage under the variant's key
    persisted,  \* history: the list the last setItem serialized, if any
    pc,         \* per tab: closed, mounted, loading, ready or crashed
    prospects,  \* per tab: the prospects state
    pending,    \* per tab: the list the load effect passed to setProspects
    form,       \* per tab: the form's fields
    error,      \* per tab: the error state (dateAdded variant)
    boot,       \* history, per tab, while the session starts: store and persisted
                \* when it started
    aiGuesses,  \* per tab: the aiGuesses state (status variant)
    logged,     \* history, kept by the specifications that ask for it: the
                \* records handleLogProspect built, oldest first
    last        \* history: the last step: the handler, its tab, the id it was
                \* given, whether it went through, how many records carried
                \* the id, the alert it showed, what it handed to the browser
                \* (the URL of window.open, the document of a download), and
                \* the service a search was asked for

vars == <<variant, now, store, persisted, pc, prospects, pending, form, error,
          aiGuesses, logged, boot, last>>

\* No list is known to have been persisted.
Unknown == [known |-> FALSE, list |-> <<>>]
Known(list) == [known |-> TRUE, list |-> list]

\* The history of logged records: not kept, or kept and holding the list.
NotLogging == [on |-> FALSE, list |-> <<>>]
Logging(list) == [on |-> TRUE, list |-> list]

NoBoot == [store |-> NoItem, persisted |-> Unknown]

Step(op, s) ==
    [op |-> op, tab |-> s, id |-> 0, ok |-> FALSE, hit |-> 0, alert |-> NoMessage,
     out |-> <<>>, arg |-> ""]

\* The state before the page is first opened, with history h of logged records.
InitWith(h) ==
    /\ variant \in Variants
    /\ now = 1
    /\ store \in InitStores
    /\ persisted = Unknown
    /\ pc = [s \in Tabs |-> "closed"]
    /\ prospects = [s \in Tabs |-> <<>>]
    /\ pending = [s \in Tabs |-> <<>>]
    /\ form = [s \in Tabs |-> EmptyForm]
    /\ error = [s \in Tabs |-> NoMessage]
    /\ aiGuesses = [s \in Tabs |-> <<>>]
    /\ logged = h
    /\ boot = [s \in Tabs |-> NoBoot]
    /\ last = Step("init", "t1")

Init == InitWith(NotLogging)

(***************************************************************************)
(* The code's expressions.                                                 *)
(***************************************************************************)
\* The keys of the variant's records, in property order, and the numeric ones.
KeysOf(v) == IF v = "status" THEN StatusKeys ELSE DateKeys
NumericOf(v) == IF v = "status" THEN {"id"} ELSE {}

\* SavedItem as serializing the list without its newest record would have it.
SavedItem_OmitsNewest(v, list) ==
    Item(Stringify(IF list = <<>> THEN list ELSE Tail(list), KeysOf(v), NumericOf(v)))

\* JSON.stringify(prospects), as the item setItem stores.
SavedItem(v, list) == Item(Stringify(list, KeysOf(v), NumericOf(v)))

\* A string from getItem that is truthy: an item, and not the empty string.
Truthy(st) == st.present /\ st.text # <<>>

\* The lazy initializer of the prospects state (dateAdded variant):
\* saved ? JSON.parse(saved) : [], and [] when JSON.parse throws.
InitialProspects(st) ==
    IF Truthy(st)
    THEN LET r == Parse(st.text) IN IF r.ok THEN r.value ELSE <<>>
    ELSE <<>>

\* IsValid as a check of the first name only would have it.
IsValid_FirstNameOnly(f) == ~(f.firstName = <<>>)

\* IsValid as a guard that forgets the company would have it.
IsValid_NoCompany(f) == ~(f.email = <<>> \/ f.firstName = <<>>)

\* The guard of handleLogProspect, negated: all three required fields are truthy.
IsValid(f) == ~(f.email = <<>> \/ f.firstName = <<>> \/ f.company = <<>>)

\* The object literal newProspect.
NewProspect(v, f, t) ==
    IF v = "status"
    THEN [ id        |-> t,
           firstName |-> f.firstName,
           lastName  |-> f.lastName,
           company   |-> f.company,
           domain    |-> f.domain,
           email     |-> f.email,
           title     |-> f.title,
           status    |-> NotContacted ]
    ELSE [ id            |-> Digits(t),
           firstName     |-> f.firstName,
           lastName      |-> f.lastName,
           company       |-> f.company,
           companyDomain |-> f.domain,
           email         |-> f.email,
           dateAdded     |-> IsoDate(t) ]

\* Prepend as [...prospects, newProspect] would have it.
Prepend_AtEnd(p, list) == Append(list, p)

\* [newProspect, ...prospects]
Prepend(p, list) == <<p>> \o list

\* WithoutId as filter(p => p.id === id) would have it.
WithoutId_KeepsMatches(list, id) == SelectSeq(list, LAMBDA p : p.id = id)

\* prospects.filter(p => p.id !== id)
WithoutId(list, id) == SelectSeq(list, LAMBDA p : p.id # id)

\* WithStatus as a map that sets every record's status would have it.
WithStatus_Everyone(list, id, newStatus) ==
    [i \in 1..Len(list) |-> [list[i] EXCEPT !.status = newStatus]]

\* prospects.map(p => p.id === id ? { ...p, status: newStatus } : p)
WithStatus(list, id, newStatus) ==
    [i \in 1..Len(list) |->
        IF list[i].id = id THEN [list[i] EXCEPT !.status = newStatus] ELSE list[i]]

\* How many records of the list carry the identifier.
Hits(list, id) == Cardinality({i \in DOMAIN list : list[i].id = id})

(***************************************************************************)
(* A session's start and end.                                              *)
(***************************************************************************)
\* The page is opened in tab s: the first render.  useState([]) in the status
\* variant, the lazy initializer reading the store in the dateAdded variant.
Open(s) ==
    /\ pc[s] = "closed"
    /\ pc' = [pc EXCEPT ![s] = "mounted"]
    /\ prospects' = [prospects EXCEPT ![s] =
           IF variant = "status" THEN <<>> ELSE InitialProspects(store)]
    /\ boot' = [boot EXCEPT ![s] = [store |-> store, persisted |-> persisted]]
    /\ last' = Step("open", s)
    /\ UNCHANGED <<variant, aiGuesses, logged, now, store, persisted, pending, form, error>>

\* The effects of the first render, in source order.  Status variant: the load
\* effect, then the save effect, which still sees the [] of the first render.
\* JSON.parse throwing in the load effect is an uncaught error: React unmounts
\* the application, and whether the save effect of the same commit still runs
\* depends on the React version.  dateAdded variant: the save effect alone.
MountEffects(s) ==
    /\ pc[s] = "mounted"
    /\ last' = Step("effects", s)
    /\ UNCHANGED <<variant, aiGuesses, logged, now, prospects, form, error>>
    /\ IF variant = "status"
       THEN IF Truthy(store)
            THEN LET r == Parse(store.text)
                 IN  IF r.ok
                     THEN /\ pending' = [pending EXCEPT ![s] = r.value]
                          /\ store' = SavedItem(variant, prospects[s])
                          /\ persisted' = Known(prospects[s])
                          /\ pc' = [pc EXCEPT ![s] = "loading"]
                     ELSE /\ pc' = [pc EXCEPT ![s] = "crashed"]
                          /\ UNCHANGED pending
                          /\ \/ UNCHANGED <<store, persisted>>
                             \/ /\ store' = SavedItem(variant, prospects[s])
                                /\ persisted' = Known(prospects[s])
            ELSE /\ store' = SavedItem(variant, prospects[s])
                 /\ persisted' = Known(prospects[s])
                 /\ pc' = [pc EXCEPT ![s] = "ready"]
                 /\ UNCHANGED pending
       ELSE /\ store' = SavedItem(variant, prospects[s])
            /\ persisted' = Known(prospects[s])
            /\ pc' = [pc EXCEPT ![s] = "ready"]
            /\ UNCHANGED pending
    /\ boot' = IF pc'[s] = "ready" THEN [boot EXCEPT ![s] = NoBoot] ELSE boot

\* Status variant: the render the load effect's setProspects scheduled, and the
\* save effect of that render.
Rerender(s) ==
    /\ pc[s] = "loading"
    /\ prospects' = [prospects EXCEPT ![s] = pending[s]]
    /\ pending' = [pending EXCEPT ![s] = <<>>]
    /\ store' = SavedItem(variant, pending[s])
    /\ persisted' = Known(pending[s])
    /\ pc' = [pc EXCEPT ![s] = "ready"]
    /\ boot' = [boot EXCEPT ![s] = NoBoot]
    /\ last' = Step("rerender", s)
    /\ UNCHANGED <<variant, aiGuesses, logged, now, form, error>>

\* The tab is closed or reloaded: the session's memory is gone, the store stays.
Close(s) ==
    /\ pc[s] # "closed"
    /\ pc' = [pc EXCEPT ![s] = "closed"]
    /\ prospects' = [prospects EXCEPT ![s] = <<>>]
    /\ pending' = [pending EXCEPT ![s] = <<>>]
    /\ form' = [form EXCEPT ![s] = EmptyForm]
    /\ error' = [error EXCEPT ![s] = NoMessage]
    /\ boot' = [boot EXCEPT ![s] = NoBoot]
    /\ last' = Step("close", s)
    /\ UNCHANGED <<variant, aiGuesses, logged, now, store, persisted>>

\* A millisecond passes.
Tick ==
    /\ now < MaxTime
    /\ now' = now + 1
    /\ last' = Step("tick", "t1")
    /\ UNCHANGED <<variant, aiGuesses, logged, store, persisted, pc, prospects, pending, form,
                   error, boot>>

\* Date.now() reads the wall clock, which the system can set back.
ClockSetBack ==
    /\ now' \in 1..(now - 1)
    /\ last' = Step("setback", "t1")
    /\ UNCHANGED <<variant, aiGuesses, logged, store, persisted, pc, prospects, pending, form,
                   error, boot>>

(***************************************************************************)
(* The handlers.                                                           *)
(***************************************************************************)
\* The onChange handlers of the form's inputs, as many as it takes to have the
\* form read f.
FillForm(s, f) ==
    /\ pc[s] = "ready"
    /\ form[s] # f
    /\ form' = [form EXCEPT ![s] = f]
    /\ last' = Step("fill", s)
    /\ UNCHANGED <<variant, aiGuesses, logged, now, store, persisted, pc, prospects, pending,
                   error, boot>>

\* handleLogProspect, with the render and the save effect its setProspects
\* causes.  The dateAdded variant first clears its error state.
HandleLogProspect(s) ==
    /\ pc[s] = "ready"
    /\ UNCHANGED <<variant, now, pc, pending, boot>>
    /\ IF ~IsValid(form[s])
       THEN /\ last' = [Step("log", s) EXCEPT
                           !.alert = IF variant = "status" THEN LogAlert
                                     ELSE NoMessage]
            /\ error' = [error EXCEPT ![s] =
                            IF variant = "status" THEN @ ELSE LogError]
            /\ UNCHANGED <<store, persisted, prospects, form, aiGuesses, logged>>
       ELSE /\ Len(prospects[s]) < MaxList
            /\ logged.on => Len(logged.list) < MaxLogs
            /\ LET list == Prepend(NewProspect(variant, form[s], now), prospects[s])
               IN  /\ prospects' = [prospects EXCEPT ![s] = list]
                   /\ store' = SavedItem(variant, list)
                   /\ persisted' = Known(list)
            /\ logged' = IF logged.on
                          THEN Logging(Append(logged.list,
                                              NewProspect(variant, form[s], now)))
                          ELSE logged
            /\ form' = [form EXCEPT ![s] = EmptyForm]
            /\ aiGuesses' = [aiGuesses EXCEPT ![s] = <<>>]
            /\ error' = [error EXCEPT ![s] =
                            IF variant = "status" THEN @ ELSE NoMessage]
            /\ last' = [Step("log", s) EXCEPT !.ok = TRUE]

\* HandleDeleteProspect as a handler that does not ask window.confirm would have it.
HandleDeleteProspect_NoConfirm(s, id, ok) ==
    /\ pc[s] = "ready"
    /\ variant = "status"
    /\ last' = [Step("delete", s) EXCEPT
                   !.id = id, !.ok = ok, !.hit = Hits(prospects[s], id)]
    /\ UNCHANGED <<variant, aiGuesses, logged, now, pc, pending, form, error, boot>>
    /\ LET list == WithoutId(prospects[s], id)
       IN  /\ prospects' = [prospects EXCEPT ![s] = list]
           /\ store' = SavedItem(variant, list)
           /\ persisted' = Known(list)

\* handleDeleteProspect (status variant); ok is the answer to window.confirm.
\* filter returns a new array, so an accepted delete always renders and saves.
HandleDeleteProspect(s, id, ok) ==
    /\ pc[s] = "ready"
    /\ variant = "status"
    /\ last' = [Step("delete", s) EXCEPT
                   !.id = id, !.ok = ok, !.hit = Hits(prospects[s], id)]
    /\ UNCHANGED <<variant, aiGuesses, logged, now, pc, pending, form, error, boot>>
    /\ IF ok
       THEN LET list == WithoutId(prospects[s], id)
            IN  /\ prospects' = [prospects EXCEPT ![s] = list]
                /\ store' = SavedItem(variant, list)
                /\ persisted' = Known(list)
       ELSE UNCHANGED <<store, persisted, prospects>>

\* handleUpdateStatus (status variant); map returns a new array, so every call
\* renders and saves.
HandleUpdateStatus(s, id, newStatus) ==
    /\ pc[s] = "ready"
    /\ variant = "status"
    /\ last' = [Step("update", s) EXCEPT
                   !.id = id, !.ok = TRUE, !.hit = Hits(prospects[s], id)]
    /\ UNCHANGED <<variant, aiGuesses, logged, now, pc, pending, form, error, boot>>
    /\ LET list == WithStatus(prospects[s], id, newStatus)
       IN  /\ prospects' = [prospects EXCEPT ![s] = list]
           /\ store' = SavedItem(variant, list)
           /\ persisted' = Known(list)

(***************************************************************************)
(* The tools beside the list: email guesses, searches, CSV export.         *)
(***************************************************************************)
\* The least and the greatest of a non-empty set of numbers.
MinOf(S) == CHOOSE x \in S : \A y \in S : x <= y
MaxOf(S) == CHOOSE x \in S : \A y \in S : x >= y

\* The rows from lo to hi one after the other, by halves.
RECURSIVE ConcatRange(_, _, _)
ConcatRange(rows, lo, hi) ==
    IF lo > hi THEN <<>>
    ELSE IF lo = hi THEN rows[lo]
    ELSE LET mid == (lo + hi) \div 2
         IN  ConcatRange(rows, lo, mid) \o ConcatRange(rows, mid + 1, hi)

\* The rows one after the other.
Concat(rows) == ConcatRange(rows, 1, Len(rows))

\* String.prototype.toLowerCase, on the letters A to Z.
UpperChars ==
    <<"A", "B", "C", "D", "E", "F", "G", "H", "I", "J", "K", "L", "M", "N",
      "O", "P", "Q", "R", "S", "T", "U", "V", "W", "X", "Y", "Z">>
LowerChars ==
    <<"a", "b", "c", "d", "e", "f", "g", "h", "i", "j", "k", "l", "m", "n",
      "o", "p", "q", "r", "s", "t", "u", "v", "w", "x", "y", "z">>
LowerChar(c) ==
    IF \E i \in DOMAIN UpperChars : UpperChars[i] = c
    THEN LowerChars[CHOOSE i \in DOMAIN UpperChars : UpperChars[i] = c]
    ELSE c
ToLowerCase(cs) == [i \in 1..Len(cs) |-> LowerChar(cs[i])]

\* What generateAIGuesses returns when an argument is missing.
GuessPrompt ==
    <<"P", "l", "e", "a", "s", "e", " ", "e", "n", "t", "e", "r", " ", "a",
      " ", "f", "i", "r", "s", "t", " ", "n", "a", "m", "e", ",", " ", "l",
      "a", "s", "t", " ", "n", "a", "m", "e", ",", " ", "a", "n", "d", " ",
      "d", "o", "m", "a", "i", "n", " ", "t", "o", " ", "g", "e", "n", "e",
      "r", "a", "t", "e", " ", "g", "u", "e", "s", "s", "e", "s", ".">>

\* What a template literal makes of undefined.
Undefined ==
    <<"u", "n", "d", "e", "f", "i", "n", "e", "d">>

\* fn[0] || ''
FirstOrEmpty(cs) == IF cs = <<>> THEN <<>> ELSE <<cs[1]>>
\* ${fn[0]}
FirstInTemplate(cs) == IF cs = <<>> THEN Undefined ELSE <<cs[1]>>

\* The ten patterns of generateAIGuesses, for every input.
Patterns(firstName, lastName, domain) ==
    LET fn == ToLowerCase(firstName)
        ln == ToLowerCase(lastName)
        fi == FirstOrEmpty(fn)
        li == FirstOrEmpty(ln)
        at == <<"@">> \o domain
    IN  << fn \o <<".">> \o ln \o at,
           fi \o ln \o at,
           fn \o li \o at,
           fn \o at,
           ln \o at,
           fn \o <<"_">> \o ln \o at,
           fi \o <<".">> \o ln \o at,
           fn \o ln \o at,
           ln \o <<".">> \o fn \o at,
           FirstInTemplate(fn) \o FirstInTemplate(ln) \o at >>

\* GenerateAIGuesses as a function that does not lower-case the last name
\* would have it.
GenerateAIGuesses_LastNameAsTyped(firstName, lastName, domain) ==
    IF firstName = <<>> \/ lastName = <<>> \/ domain = <<>>
    THEN GuessPrompt
    ELSE LET all == Patterns(firstName, lastName, domain)
             at == <<"@">> \o domain
         IN  Join([all EXCEPT ![5] = lastName \o at], <<"\n">>)

\* GenerateAIGuesses as a function whose guard forgets the domain would have it.
GenerateAIGuesses_NoDomainGuard(firstName, lastName, domain) ==
    IF firstName = <<>> \/ lastName = <<>>
    THEN GuessPrompt
    ELSE Join(Patterns(firstName, lastName, domain), <<"\n">>)

\* generateAIGuesses
GenerateAIGuesses(firstName, lastName, domain) ==
    IF firstName = <<>> \/ lastName = <<>> \/ domain = <<>>
    THEN GuessPrompt
    ELSE Join(Patterns(firstName, lastName, domain), <<"\n">>)

\* Characters that encodeURIComponent and encodeURI leave as they are.
AlphaNum == Range(UpperChars) \cup Range(LowerChars) \cup Range(DigitChars)
UriMarks == {"-", "_", ".", "!", "~", "*", "'", "(", ")"}
\* Characters that encodeURI, too, leaves as they are.
UriReserved == {";", "/", "?", ":", "@", "&", "=", "+", "$", ","}
Hash == "#"

\* The two hexadecimal digits of the other characters the model's texts use.
HexCode ==
    ("\n" :> <<"0", "A">>) @@ (" "  :> <<"2", "0">>) @@ (Quote :> <<"2", "2">>) @@
    (Hash :> <<"2", "3">>) @@ ("$"  :> <<"2", "4">>) @@ ("%"   :> <<"2", "5">>) @@
    ("&"  :> <<"2", "6">>) @@ ("+"  :> <<"2", "B">>) @@ (","   :> <<"2", "C">>) @@
    ("/"  :> <<"2", "F">>) @@ (":"  :> <<"3", "A">>) @@ (";"   :> <<"3", "B">>) @@
    ("="  :> <<"3", "D">>) @@ ("?"  :> <<"3", "F">>) @@ ("@"   :> <<"4", "0">>) @@
    (Backslash :> <<"5", "C">>)

PercentEncode(c) == <<"%">> \o HexCode[c]

\* encodeURIComponent
EncodeURIComponent(cs) ==
    Concat([i \in 1..Len(cs) |->
               IF cs[i] \in AlphaNum \cup UriMarks
               THEN <<cs[i]>> ELSE PercentEncode(cs[i])])

\* encodeURI
EncodeURI(cs) ==
    Concat([i \in 1..Len(cs) |->
               IF cs[i] \in AlphaNum \cup UriMarks \cup UriReserved \cup {Hash}
               THEN <<cs[i]>> ELSE PercentEncode(cs[i])])

\* Percent-decoding, as the browser does it to the body of a data: URL: a "%"
\* with the two hexadecimal digits of a character stands for the character.
\* The digits of an escape are never a "%", so the escapes are where they look
\* to be.
PercentDecode(cs) ==
    LET Escape(i) ==
            /\ i >= 1
            /\ cs[i] = "%"
            /\ i + 2 <= Len(cs)
            /\ \E c \in DOMAIN HexCode : HexCode[c] = <<cs[i + 1], cs[i + 2]>>
    IN  Concat([i \in 1..Len(cs) |->
                   IF Escape(i)
                   THEN <<CHOOSE c \in DOMAIN HexCode :
                             HexCode[c] = <<cs[i + 1], cs[i + 2]>>>>
                   ELSE IF Escape(i - 1) \/ Escape(i - 2) THEN <<>>
                   ELSE <<cs[i]>>])

\* The document the browser saves for a link to a data: URL.  The fragment of
\* the URL, from its first "#" on, is no part of the resource; the body is
\* what follows the first comma, percent-decoded.
DataUrlDocument(href) ==
    LET hashes == {i \in DOMAIN href : href[i] = Hash}
        end == IF hashes = {} THEN Len(href) ELSE MinOf(hashes) - 1
        commas == {i \in 1..end : href[i] = ","}
    IN  IF commas = {} THEN <<>>
        ELSE PercentDecode(SubSeq(href, MinOf(commas) + 1, end))

\* String.prototype.trim
IsSpace(c) == c \in {" ", "\n", "\t"}
Trim(cs) ==
    LET kept == {i \in DOMAIN cs : ~IsSpace(cs[i])}
    IN  IF kept = {} THEN <<>> ELSE SubSeq(cs, MinOf(kept), MaxOf(kept))

\* What generateSearchUrl returns: null, or a URL.
NullUrl == [null |-> TRUE, text |-> <<>>]
Url(tx) == [null |-> FALSE, text |-> tx]

\* The constant parts of the search URLs.
GoogleSearch ==
    <<"h", "t", "t", "p", "s", ":", "/", "/", "w", "w", "w", ".", "g", "o",
      "o", "g", "l", "e", ".", "c", "o", "m", "/", "s", "e", "a", "r", "c",
      "h", "?", "q", "=">>
OfficialWebsite ==
    <<" ", "o", "f", "f", "i", "c", "i", "a", "l", " ", "w", "e", "b", "s",
      "i", "t", "e">>
LinkedinSearch ==
    <<"h", "t", "t", "p", "s", ":", "/", "/", "w", "w", "w", ".", "l", "i",
      "n", "k", "e", "d", "i", "n", ".", "c", "o", "m", "/", "s", "e", "a",
      "r", "c", "h", "/", "r", "e", "s", "u", "l", "t", "s", "/", "p", "e",
      "o", "p", "l", "e", "/", "?", "k", "e", "y", "w", "o", "r", "d", "s",
      "=">>
ExperteFinder ==
    <<"h", "t", "t", "p", "s", ":", "/", "/", "w", "w", "w", ".", "e", "x",
      "p", "e", "r", "t", "e", ".", "c", "o", "m", "/", "e", "m", "a", "i",
      "l", "-", "f", "i", "n", "d", "e", "r", "?", "n", "a", "m", "e", "=">>
DomainParam ==
    <<"&", "d", "o", "m", "a", "i", "n", "=">>

\* The services the search buttons name, and one that no button names.
Services == {"google_company", "linkedin", "experte", "other"}

\* GenerateSearchUrl as a function that builds the email-finder URL without
\* looking at the domain would have it.
GenerateSearchUrl_NoDomainCheck(service, firstName, lastName, company, companyDomain) ==
    LET fullName == Trim(firstName \o <<" ">> \o lastName)
    IN  CASE service = "google_company" ->
               Url(GoogleSearch \o EncodeURIComponent(company \o OfficialWebsite))
          [] service = "linkedin" ->
               Url(LinkedinSearch
                   \o EncodeURIComponent(fullName \o <<" ">> \o company))
          [] service = "experte" ->
               Url(ExperteFinder \o EncodeURIComponent(fullName)
                   \o DomainParam \o EncodeURIComponent(companyDomain))
          [] OTHER -> NullUrl

\* generateSearchUrl
GenerateSearchUrl(service, firstName, lastName, company, companyDomain) ==
    LET fullName == Trim(firstName \o <<" ">> \o lastName)
    IN  CASE service = "google_company" ->
               Url(GoogleSearch \o EncodeURIComponent(company \o OfficialWebsite))
          [] service = "linkedin" ->
               Url(LinkedinSearch
                   \o EncodeURIComponent(fullName \o <<" ">> \o company))
          [] service = "experte" ->
               IF companyDomain = <<>> THEN NullUrl
               ELSE Url(ExperteFinder \o EncodeURIComponent(fullName)
                        \o DomainParam \o EncodeURIComponent(companyDomain))
          [] OTHER -> NullUrl

\* The argument of setError() in handleSearch.
SearchError == "You must enter a 'Company Domain' to use that search!"

\* The arguments of alert() in exportToCSV.
ExportAlert(v) ==
    IF v = "status" THEN "No prospects to export!" ELSE "Your prospect list is empty!"

\* The columns exportToCSV writes, and the names it gives them in the header.
CsvFields(v) ==
    IF v = "status"
    THEN <<"firstName", "lastName", "company", "domain", "email", "title", "status">>
    ELSE <<"firstName", "lastName", "company", "companyDomain", "email", "dateAdded">>

StatusHeaders ==
    <<"f", "i", "r", "s", "t", "N", "a", "m", "e", ",", "l", "a", "s", "t",
      "N", "a", "m", "e", ",", "c", "o", "m", "p", "a", "n", "y", ",", "d",
      "o", "m", "a", "i", "n", ",", "e", "m", "a", "i", "l", ",", "t", "i",
      "t", "l", "e", ",", "s", "t", "a", "t", "u", "s", "\n">>
DateHeaders ==
    <<"f", "i", "r", "s", "t", "N", "a", "m", "e", ",", "l", "a", "s", "t",
      "N", "a", "m", "e", ",", "c", "o", "m", "p", "a", "n", "y", ",", "c",
      "o", "m", "p", "a", "n", "y", "D", "o", "m", "a", "i", "n", ",", "v",
      "e", "r", "i", "f", "i", "e", "d", "E", "m", "a", "i", "l", ",", "d",
      "a", "t", "e", "A", "d", "d", "e", "d">>
DataUrlPrefix ==
    <<"d", "a", "t", "a", ":", "t", "e", "x", "t", "/", "c", "s", "v", ";",
      "c", "h", "a", "r", "s", "e", "t", "=", "u", "t", "f", "-", "8", ",">>

\* `"${p.firstName}"`: the value between double quotes, as it is.
Quoted(cs) == <<Quote>> \o cs \o <<Quote>>

\* One record's line: its quoted values with commas between.
CsvRow(v, p) ==
    Join([i \in DOMAIN CsvFields(v) |-> Quoted(p[CsvFields(v)[i]])], <<",">>)

\* The rows of the list with newlines between.
CsvRows(v, list) == Join([i \in 1..Len(list) |-> CsvRow(v, list[i])], <<"\n">>)

\* The document exportToCSV has the browser download.  Status variant: the Blob
\* of headers + csvContent.  dateAdded variant: the resource of the data: URL
\* encodeURI(csvContent).
CsvDocument(v, list) ==
    IF v = "status"
    THEN StatusHeaders \o CsvRows(v, list)
    ELSE DataUrlDocument(
             EncodeURI(DataUrlPrefix \o DateHeaders \o <<"\n">> \o CsvRows(v, list)))

\* handleGenerateAIGuesses (status variant)
HandleGenerateAIGuesses(s) ==
    /\ pc[s] = "ready"
    /\ variant = "status"
    /\ aiGuesses' = [aiGuesses EXCEPT ![s] =
           GenerateAIGuesses(form[s].firstName, form[s].lastName, form[s].domain)]
    /\ last' = Step("guess", s)
    /\ UNCHANGED <<variant, logged, now, store, persisted, pc, prospects, pending,
                   form, error, boot>>

\* handleSearch (dateAdded variant): window.open(url, '_blank') when the URL is
\* truthy, setError otherwise.
HandleSearch(s, service) ==
    /\ pc[s] = "ready"
    /\ variant = "dateAdded"
    /\ LET url == GenerateSearchUrl(service, form[s].firstName, form[s].lastName,
                                    form[s].company, form[s].domain)
       IN  IF ~url.null /\ url.text # <<>>
           THEN /\ last' = [Step("search", s) EXCEPT
                               !.arg = service, !.ok = TRUE, !.out = url.text]
                /\ UNCHANGED error
           ELSE /\ last' = [Step("search", s) EXCEPT !.arg = service]
                /\ error' = [error EXCEPT ![s] = SearchError]
    /\ UNCHANGED <<variant, aiGuesses, logged, now, store, persisted, pc, prospects,
                   pending, form, boot>>

\* exportToCSV: an alert on an empty list, a download of the document otherwise.
ExportToCSV(s) ==
    /\ pc[s] = "ready"
    /\ last' = IF prospects[s] = <<>>
               THEN [Step("export", s) EXCEPT !.alert = ExportAlert(variant)]
               ELSE [Step("export", s) EXCEPT
                        !.ok = TRUE, !.out = CsvDocument(variant, prospects[s])]
    /\ UNCHANGED <<variant, aiGuesses, logged, now, store, persisted, pc, prospects,
                   pending, form, error, boot>>

(***************************************************************************)
(* Specification: one session at a time, in tab t1.                        *)
(***************************************************************************)
TabStep(s) ==
    \/ Open(s)
    \/ MountEffects(s)
    \/ Rerender(s)
    \/ Close(s)
    \/ \E f \in Forms : FillForm(s, f)
    \/ HandleLogProspect(s)
    \/ /\ variant = "status"
       /\ \E id \in IdsFor(prospects[s]) : \E ok \in BOOLEAN :
             HandleDeleteProspect(s, id, ok)
    \/ /\ variant = "status"
       /\ \E id \in IdsFor(prospects[s]) : \E st \in StatusInputs :
             HandleUpdateStatus(s, id, st)

Next ==
    \/ TabStep("t1")
    \/ Tick
    \/ ClockSetBack

Spec == Init /\ [][Next]_vars

(***************************************************************************)
(* Specification: one session, never closed, in which the user fills the   *)
(* form, logs prospects and uses the tools.                                *)
(***************************************************************************)
ToolStep(s) ==
    \/ Open(s)
    \/ MountEffects(s)
    \/ \E f \in ToolForms : FillForm(s, f)
    \/ HandleLogProspect(s)
    \/ HandleGenerateAIGuesses(s)
    \/ \E service \in Services : HandleSearch(s, service)
    \/ ExportToCSV(s)

NextTools == ToolStep("t1")

SpecTools == Init /\ [][NextTools]_vars

(***************************************************************************)
(* Specification: as Spec, with the history of logged records kept.        *)
(***************************************************************************)
InitOrder == InitWith(Logging(<<>>))

SpecOrder == InitOrder /\ [][Next]_vars

(***************************************************************************)
(* Specification: two tabs open the page on the same localStorage and stay  *)
(* open; their user types TypedForm, logs, updates, and deletes, accepting  *)
(* the confirmation.                                                       *)
(***************************************************************************)
SharedStep(s) ==
    \/ Open(s)
    \/ MountEffects(s)
    \/ Rerender(s)
    \/ FillForm(s, TypedForm)
    \/ HandleLogProspect(s)
    \/ /\ variant = "status"
       /\ \E id \in IdsFor(prospects[s]) : HandleDeleteProspect(s, id, TRUE)
    \/ /\ variant = "status"
       /\ \E id \in IdsFor(prospects[s]) : \E st \in StatusInputs :
             HandleUpdateStatus(s, id, st)

NextTabs ==
    \/ \E s \in Tabs : SharedStep(s)
    \/ Tick

SpecTabs == Init /\ [][NextTabs]_vars

(***************************************************************************)
(* Properties.                                                             *)
(***************************************************************************)
\* First name, company and email of form f are all non-empty.
Filled(f) == f.firstName # <<>> /\ f.company # <<>> /\ f.email # <<>>

\* Record p carries the values of form f, under the variant's property names.
BuiltFrom(p, f) ==
    /\ p.firstName = f.firstName
    /\ p.lastName = f.lastName
    /\ p.company = f.company
    /\ p.email = f.email
    /\ IF variant = "status"
       THEN p.domain = f.domain /\ p.title = f.title /\ p.id = now
       ELSE p.companyDomain = f.domain /\ p.id = Digits(now)

\* C1: a log action on a form whose first name, company and email are
\* non-empty turns the list L into a list of length |L|+1 whose first element
\* is the record built from the form and whose other elements are L's records,
\* unchanged and in order.
C1_LogPrepends ==
    [][\A s \in Tabs :
          (last'.op = "log" /\ last'.tab = s /\ Filled(form[s]))
          => /\ Len(prospects'[s]) = Len(prospects[s]) + 1
             /\ BuiltFrom(prospects'[s][1], form[s])
             /\ \A i \in 1..Len(prospects[s]) :
                   prospects'[s][i + 1] = prospects[s][i]]_vars

\* A log action has just put a second record in front of an earlier one.
C1_Witness ==
    \E s \in Tabs :
        /\ last.op = "log" /\ last.tab = s /\ last.ok
        /\ Len(prospects[s]) = 2
        /\ prospects[s][1] # prospects[s][2]

\* C2: a log action on a form in which first name, company or email is empty
\* leaves the list and the store unchanged and reports the validation failure:
\* the alert in the status variant, the error message in the dateAdded variant.
C2_InvalidLogRejected ==
    [][\A s \in Tabs :
          (last'.op = "log" /\ last'.tab = s /\ ~Filled(form[s]))
          => /\ prospects' = prospects
             /\ store' = store
             /\ IF variant = "status"
                THEN last'.alert = LogAlert
                ELSE error'[s] = LogError]_vars

\* A log action has just been refused on a form that lacks one required field
\* only, with a record already in the list.
C2_Witness ==
    \E s \in Tabs :
        /\ last.op = "log" /\ last.tab = s /\ ~last.ok
        /\ form[s].firstName # <<>> /\ form[s].email # <<>>
        /\ form[s].company = <<>>
        /\ Len(prospects[s]) = 1

\* C3: when a session has finished starting on a store that holds the list L
\* an earlier session persisted, its in-memory list is L, record for record and
\* in order, and the store holds what it held when the session started, the
\* serialization of L.
C3_RoundTrip ==
    [][\A s \in Tabs :
          (/\ pc[s] \in {"mounted", "loading"}
           /\ pc'[s] = "ready"
           /\ boot[s].persisted.known)
          => /\ prospects'[s] = boot[s].persisted.list
             /\ store' = boot[s].store
             /\ store' = SavedItem(variant, boot[s].persisted.list)]_vars

\* A session has just finished starting with two records, one of them with a
\* quote in its company, read back from the store.
C3_Witness ==
    \E s \in Tabs :
        /\ pc[s] = "ready"
        /\ last.tab = s /\ last.op \in {"effects", "rerender"}
        /\ Len(prospects[s]) = 2
        /\ \E i \in 1..2 : Quote \in Range(prospects[s][i].company)

\* The store holds no item, or a text JSON.parse rejects.
Unusable(st) == ~st.present \/ ~Parse(st.text).ok

\* C4: a session started on a store with no item or with unparseable text
\* finishes its startup ready, with an empty list, and without a failure.
C4_BadStoreAbsorbed ==
    [][\A s \in Tabs :
          (/\ pc[s] = "mounted"
           /\ pc'[s] \notin {"mounted", "closed"}
           /\ Unusable(boot[s].store))
          => /\ pc'[s] = "ready"
             /\ prospects'[s] = <<>>]_vars

\* C5: no two records of a session's list carry the same identifier.
C5_UniqueIds ==
    \A s \in Tabs : \A i, j \in DOMAIN prospects[s] :
        i # j => prospects[s][i].id # prospects[s][j].id

\* C6: whenever a session is ready (its startup is over and every handler has
\* run to its end), the store holds an item that is the serialization of the
\* session's whole list: parsed, it gives that list.
C6_StoreMirrorsList ==
    \A s \in Tabs :
        pc[s] = "ready"
        => /\ store.present
           /\ Parse(store.text) = [ok |-> TRUE, value |-> prospects[s]]

\* An accepted delete has just removed one of two records, and the store was
\* written again.
C6_Witness ==
    \E s \in Tabs :
        /\ pc[s] = "ready"
        /\ last.tab = s /\ last.op = "delete" /\ last.ok /\ last.hit = 1
        /\ Len(prospects[s]) = 1
        /\ store = SavedItem(variant, prospects[s])

\* Every record of the list has a first name, a company and an email.
Complete(list) ==
    \A i \in DOMAIN list :
        list[i].firstName # <<>> /\ list[i].company # <<>> /\ list[i].email # <<>>

\* C7: every record in a session's memory, and every record of the list last
\* written to the store, has a non-empty first name, company and email.
C7_RequiredFieldsKept ==
    /\ \A s \in Tabs : Complete(prospects[s]) /\ Complete(pending[s])
    /\ Complete(persisted.list)

\* Two records are in memory and in the store, and the form holds an input
\* without a company.
C7_Witness ==
    \E s \in Tabs :
        /\ pc[s] = "ready"
        /\ Len(prospects[s]) = 2
        /\ persisted = Known(prospects[s])
        /\ form[s].company = <<>> /\ form[s].email # <<>>

\* C8: (status variant) an accepted delete and a status update with an
\* identifier that no record of the list carries leave the list and the
\* store's content as they were.
C8_AbsentIdNoOp ==
    [][\A s \in Tabs :
          (/\ last'.tab = s
           /\ (last'.op = "delete" /\ last'.ok) \/ last'.op = "update"
           /\ \A i \in DOMAIN prospects[s] : prospects[s][i].id # last'.id)
          => /\ prospects'[s] = prospects[s]
             /\ store' = store]_vars

\* An accepted delete with an identifier no record carried has just run on a
\* list of two records.
C8_Witness ==
    \E s \in Tabs :
        /\ last.tab = s /\ last.op = "delete" /\ last.ok /\ last.hit = 0
        /\ Len(prospects[s]) = 2

\* C9: (status variant) in a running session, a declined delete leaves list
\* and store unchanged; an accepted delete removes exactly the records that
\* carry the identifier and keeps the others as they are and in order; no
\* other step removes a record.
C9_DeleteOnlyWhenConfirmed ==
    [][\A s \in Tabs :
          (pc[s] = "ready" /\ pc'[s] = "ready")
          => LET before == prospects[s]
                 after == prospects'[s]
                 id == last'.id
                 grown == Len(after) - Len(before)
             IN  IF last'.op = "delete" /\ last'.tab = s /\ last'.ok
                 THEN after = SelectSeq(before, LAMBDA p : p.id # id)
                 ELSE /\ (last'.op = "delete" /\ last'.tab = s)
                         => (after = before /\ store' = store)
                      /\ grown >= 0
                      /\ \A i \in 1..Len(before) :
                            after[i + grown].id = before[i].id]_vars

\* An accepted delete has just removed one record and kept the other.
C9_Witness ==
    \E s \in Tabs :
        /\ last.tab = s /\ last.op = "delete" /\ last.ok /\ last.hit = 1
        /\ Len(prospects[s]) = 1
        /\ prospects[s][1].id # last.id

\* The fields of a status-variant record that no handler writes after creation.
Core(p) ==
    [k \in {"id", "firstName", "lastName", "company", "domain", "email", "title"}
        |-> p[k]]

CoreSeq(list) == [i \in 1..Len(list) |-> Core(list[i])]

\* C10: (status variant) a status update gives the new status to the records
\* that carry the identifier and leaves length, order and every other record
\* as they were; and in a running session no step changes identifier, names,
\* company, domain, email or title of a record: the records of before are,
\* but for their status, those of after, in order, behind a newly logged one
\* or less the deleted ones.
C10_UpdateStatusFrame ==
    [][\A s \in Tabs :
          LET before == prospects[s]
              after == prospects'[s]
              grown == Len(after) - Len(before)
          IN  /\ (last'.op = "update" /\ last'.tab = s)
                 => \A st \in StatusInputs :
                       HandleUpdateStatus(s, last'.id, st)
                       => /\ Len(after) = Len(before)
                          /\ \A i \in 1..Len(before) :
                                after[i] = IF before[i].id = last'.id
                                           THEN [before[i] EXCEPT !.status = st]
                                           ELSE before[i]
              /\ (variant = "status" /\ pc[s] = "ready" /\ pc'[s] = "ready")
                 => IF last'.op = "delete" /\ last'.tab = s /\ last'.ok
                    THEN CoreSeq(after)
                         = SelectSeq(CoreSeq(before), LAMBDA c : c.id # last'.id)
                    ELSE /\ grown >= 0
                         /\ \A i \in 1..Len(before) :
                               Core(after[i + grown]) = Core(before[i])]_vars

\* A status update has just changed one of two records, which now differ in
\* status.
C10_Witness ==
    \E s \in Tabs :
        /\ last.tab = s /\ last.op = "update" /\ last.hit = 1
        /\ Len(prospects[s]) = 2
        /\ prospects[s][1].status # prospects[s][2].status

\* The sequence in reverse.
Reverse(seq) == [i \in 1..Len(seq) |-> seq[Len(seq) + 1 - i]]

\* The elements of a occur in b, in a's order.
RECURSIVE IsSubseq(_, _)
IsSubseq(a, b) ==
    IF a = <<>> THEN TRUE
    ELSE IF b = <<>> THEN FALSE
    ELSE IF Head(a) = Head(b) THEN IsSubseq(Tail(a), Tail(b))
    ELSE IsSubseq(a, Tail(b))

\* The records of the list as they were when logged: a status-variant record
\* had the first status.
AsLogged(list) ==
    [i \in 1..Len(list) |->
        IF "status" \in DOMAIN list[i]
        THEN [list[i] EXCEPT !.status = NotContacted]
        ELSE list[i]]

\* The session's list holds logged records only, the later logged in front.
NewestFirst(s) == IsSubseq(AsLogged(prospects[s]), Reverse(logged.list))

\* C11: from an empty list on, every session's list is ordered newest first:
\* its records are records that were logged, and of two of them the one logged
\* later is at the smaller index; and in the dateAdded variant the list before
\* a step of a running session is a suffix of the list after it.
C11_NewestFirst ==
    [][\A s \in Tabs :
          /\ NewestFirst(s)
          /\ NewestFirst(s)'
          /\ (variant = "dateAdded" /\ pc[s] = "ready" /\ pc'[s] = "ready")
             => LET before == prospects[s]
                    after == prospects'[s]
                IN  /\ Len(after) >= Len(before)
                    /\ SubSeq(after, Len(after) - Len(before) + 1, Len(after))
                          = before]_vars

\* Three records were logged, the second was deleted, and the newest, logged
\* after the clock was set back, has the smaller identifier and is in front.
C11_Witness ==
    \E s \in Tabs :
        /\ variant = "status"
        /\ Len(logged.list) = 3
        /\ Len(prospects[s]) = 2
        /\ last.tab = s /\ last.op = "log" /\ last.ok
        /\ prospects[s][1].id < prospects[s][2].id

\* The pieces of cs between the occurrences of character c.
Split(cs, c) ==
    LET cuts == {i \in DOMAIN cs : cs[i] = c}
        n == Cardinality(cuts)
        Cut(k) == IF k = 0 THEN 0
                  ELSE IF k = n + 1 THEN Len(cs) + 1
                  ELSE CHOOSE x \in cuts : Cardinality({y \in cuts : y < x}) = k - 1
    IN  [k \in 1..(n + 1) |-> SubSeq(cs, Cut(k - 1) + 1, Cut(k) - 1)]

\* The form's first name, last name and domain are all non-empty.
GuessInputsGiven(f) == f.firstName # <<>> /\ f.lastName # <<>> /\ f.domain # <<>>

\* The first five guesses for Jane Doe at acme.com.
JaneGuesses ==
    << <<"j", "a", "n", "e", ".", "d", "o", "e", "@", "a", "c", "m", "e", ".", "c", "o", "m">>,
       <<"j", "d", "o", "e", "@", "a", "c", "m", "e", ".", "c", "o", "m">>,
       <<"j", "a", "n", "e", "d", "@", "a", "c", "m", "e", ".", "c", "o", "m">>,
       <<"j", "a", "n", "e", "@", "a", "c", "m", "e", ".", "c", "o", "m">>,
       <<"d", "o", "e", "@", "a", "c", "m", "e", ".", "c", "o", "m">> >>

\* C12: generating guesses from a form with first name, last name and domain
\* shows exactly ten lines, in this order, fn and ln being the lower-cased
\* names and fi, li their first characters: fn.ln, fi ln, fn li, fn, ln, fn_ln,
\* fi.ln, fn ln, ln.fn, fi li, each followed by "@" and the domain as typed;
\* for Jane, Doe, acme.com the first five lines are jane.doe@acme.com,
\* jdoe@acme.com, janed@acme.com, jane@acme.com and doe@acme.com.
C12_TenGuesses ==
    [][\A s \in Tabs :
          (last'.op = "guess" /\ last'.tab = s /\ GuessInputsGiven(form[s]))
          => LET fn == ToLowerCase(form[s].firstName)
                 ln == ToLowerCase(form[s].lastName)
                 fi == <<fn[1]>>
                 li == <<ln[1]>>
                 at == <<"@">> \o form[s].domain
                 lines == Split(aiGuesses'[s], "\n")
             IN  /\ lines = << fn \o <<".">> \o ln \o at, fi \o ln \o at,
                               fn \o li \o at, fn \o at, ln \o at,
                               fn \o <<"_">> \o ln \o at,
                               fi \o <<".">> \o ln \o at, fn \o ln \o at,
                               ln \o <<".">> \o fn \o at, fi \o li \o at >>
                 /\ (/\ form[s].firstName = JaneForm.firstName
                     /\ form[s].lastName = JaneForm.lastName
                     /\ form[s].domain = JaneForm.domain)
                    => \A i \in 1..5 : lines[i] = JaneGuesses[i]]_vars

\* Guesses have just been generated for Jane Doe at acme.com.
C12_Witness ==
    \E s \in Tabs :
        /\ last.op = "guess" /\ last.tab = s
        /\ form[s].firstName = JaneForm.firstName
        /\ form[s].lastName = JaneForm.lastName
        /\ form[s].domain = JaneForm.domain
        /\ aiGuesses[s] # GuessPrompt
        /\ aiGuesses[s] # <<>>

\* C13: generating guesses from a form in which first name, last name or domain
\* is empty shows the prompt, which holds no address; and what is shown after
\* generating is always the prompt or ten lines that each end with "@" and the
\* domain.
C13_PromptOrTen ==
    [][\A s \in Tabs :
          (last'.op = "guess" /\ last'.tab = s)
          => LET shown == aiGuesses'[s]
                 lines == Split(shown, "\n")
                 at == <<"@">> \o form[s].domain
             IN  /\ ~GuessInputsGiven(form[s])
                    => (shown = GuessPrompt /\ "@" \notin Range(shown))
                 /\ \/ shown = GuessPrompt
                    \/ /\ Len(lines) = 10
                       /\ \A i \in 1..10 :
                             /\ Len(lines[i]) > Len(at)
                             /\ SubSeq(lines[i], Len(lines[i]) - Len(at) + 1,
                                       Len(lines[i])) = at]_vars

\* Guesses have just been asked for with both names given and no domain, and
\* the prompt is shown.
C13_Witness ==
    \E s \in Tabs :
        /\ last.op = "guess" /\ last.tab = s
        /\ form[s].firstName # <<>> /\ form[s].lastName # <<>>
        /\ form[s].domain = <<>>
        /\ aiGuesses[s] = GuessPrompt

\* The header line of the export: the column names with commas between.
HeaderLine(v) == IF v = "status" THEN SubSeq(StatusHeaders, 1, Len(StatusHeaders) - 1)
                 ELSE DateHeaders

\* C14: an export of the empty list shows a message and emits no file; an
\* export of a list of n records emits a document of n+1 lines: the header,
\* then a line per record in list order, each the record's exported values in
\* double quotes with commas between, as many as the header has names.
C14_CsvLines ==
    [][\A s \in Tabs :
          (last'.op = "export" /\ last'.tab = s)
          => IF prospects[s] = <<>>
             THEN /\ ~last'.ok
                  /\ last'.out = <<>>
                  /\ last'.alert = ExportAlert(variant)
             ELSE LET lines == Split(last'.out, "\n")
                      names == Split(HeaderLine(variant), ",")
                      fields == CsvFields(variant)
                  IN  /\ last'.ok
                      /\ Len(lines) = Len(prospects[s]) + 1
                      /\ lines[1] = HeaderLine(variant)
                      /\ Len(fields) = Len(names)
                      /\ \A i \in 1..Len(prospects[s]) :
                            lines[i + 1] =
                               Join([k \in 1..Len(fields) |->
                                        <<Quote>> \o prospects[s][i][fields[k]]
                                                 \o <<Quote>>], <<",">>)]_vars

\* C15: (dateAdded variant) a search with the email finder on a form without a
\* domain gets null from generateSearchUrl, sets the missing-domain message and
\* opens nothing; on a form with a domain it opens the email-finder URL whose
\* name parameter is the encoded, trimmed "first last" and whose domain
\* parameter is the encoded domain.
C15_ExperteSearch ==
    [][\A s \in Tabs :
          (last'.op = "search" /\ last'.tab = s /\ last'.arg = "experte")
          => LET f == form[s]
                 url == GenerateSearchUrl("experte", f.firstName, f.lastName,
                                          f.company, f.domain)
             IN  IF f.domain = <<>>
                 THEN /\ url.null
                      /\ error'[s] = SearchError
                      /\ ~last'.ok
                      /\ last'.out = <<>>
                 ELSE /\ ~url.null
                      /\ last'.ok
                      /\ last'.out = url.text
                      /\ url.text =
                            ExperteFinder
                            \o EncodeURIComponent(Trim(f.firstName \o <<" ">> \o f.lastName))
                            \o DomainParam \o EncodeURIComponent(f.domain)
                      /\ error'[s] = error[s]]_vars

\* The email finder has just been opened for a form with a first name and no
\* last name, after an earlier search was refused for the missing domain.
C15_Witness ==
    \E s \in Tabs :
        /\ last.op = "search" /\ last.tab = s /\ last.arg = "experte" /\ last.ok
        /\ form[s].firstName # <<>> /\ form[s].lastName = <<>>
        /\ error[s] = SearchError
        /\ last.out = ExperteFinder \o <<"J", "a", "n", "e">> \o DomainParam \o form[s].domain

\* The store held a list when session s started.
StartedOnList(s) == Truthy(boot[s].store) /\ Parse(boot[s].store.text).ok

\* C16: while a session starts (from its first render until its list has been
\* initialized from the store), after every step the store holds the list it
\* held when the session started.
C16_StartupKeepsStore ==
    [][\A s \in Tabs :
          (pc[s] \in {"mounted", "loading"} /\ StartedOnList(s))
          => /\ store'.present
             /\ Parse(store'.text) = Parse(boot[s].store.text)]_vars

\* The list holds a record with the identifier.
HasId(list, id) == \E i \in DOMAIN list : list[i].id = id

\* C17: with two sessions open on the same store, a record that is in one
\* session's list and in the list last written to the store is still in the
\* list written to the store after the other session logs, updates a status,
\* or deletes another record.
C17_OtherTabKeepsRecord ==
    [][\A s \in Tabs : \A t \in Tabs \ {s} :
          (/\ last'.tab = s
           /\ last'.op \in {"log", "delete", "update"}
           /\ pc[t] = "ready")
          => \A i \in DOMAIN prospects[t] :
                (/\ HasId(persisted.list, prospects[t][i].id)
                 /\ ~(last'.op = "delete" /\ last'.id = prospects[t][i].id))
                => HasId(persisted'.list, prospects[t][i].id)]_vars

=============================================================================
